---- MODULE Spec2Model ----
(***************************************************************************)
(* Orpheus: the handler registry (OrpheusCore._load_handlers), the router  *)
(* (OrpheusCore.route_query), the three shipped handlers, the Gemini       *)
(* client with its retry loop (gemini_client.query) and the interactive    *)
(* session loop (OrpheusCore.start_interactive_session).                   *)
(*                                                                         *)
(* Python strings are sequences of one-character strings (literal messages *)
(* are kept as one piece); None and str values carry a tag.                *)
(***************************************************************************)
EXTENDS Integers, Sequences, FiniteSets, Bags

VARIABLES
    api_key,       \* config.GEMINI_API_KEY, read once at import
    discovered,    \* classes instantiated by the scan, in creation order
    handlers,      \* OrpheusCore.handlers
    pc,            \* position of the single thread of control
    query,         \* the line read by the session loop
    idx,           \* position of route_query's for loop in handlers (1-based)
    consulted,     \* can_handle calls of the current route_query call
    processed,     \* process calls of the current route_query call
    diff,          \* outcome of GitHandler._get_staged_diff in this call
    attempt,       \* loop variable of gemini_client.query
    calls,         \* what the transport answered to each requests.post of the call
    delays,        \* arguments of the time.sleep calls of the call, in order
    ret,           \* what gemini_client.query gave back to its caller
    response,      \* what route_query gave back to its caller
    shown,         \* what the session loop printed last
    earlier        \* record of one earlier route_query call of the session

vars == <<api_key, discovered, handlers, pc, query, idx, consulted, processed,
          diff, attempt, calls, delays, ret, response, shown, earlier>>

----------------------------------------------------------------------------
(* Bounds of the model *)

\* Longest list of handler instances the scan produces.
MaxHandlers == 3

----------------------------------------------------------------------------
(* Python values *)

PyNone == [tag |-> "None", val |-> <<>>]

PyStr(s) == [tag |-> "str", val |-> s]

\* `is not None` in place of the truth test
Truthy_NotNone(v) == v.tag = "str"

\* bool(v) for v a str or None: `if not api_key`, `if error`
Truthy(v) == v.tag = "str" /\ v.val # <<>>

\* The characters str.strip() removes and str.isspace() accepts.
Whitespace == {" ", "\t", "\n", "\r"}

RECURSIVE LStrip(_)
LStrip(s) ==
    IF s # <<>> /\ Head(s) \in Whitespace THEN LStrip(Tail(s)) ELSE s

RECURSIVE RStrip(_)
RStrip(s) ==
    IF s # <<>> /\ s[Len(s)] \in Whitespace
    THEN RStrip(SubSeq(s, 1, Len(s) - 1))
    ELSE s

\* str.strip()
Strip(s) == RStrip(LStrip(s))

UpperCase == <<"A", "B", "C", "D", "E", "F", "G", "H", "I", "J", "K", "L", "M",
               "N", "O", "P", "Q", "R", "S", "T", "U", "V", "W", "X", "Y", "Z">>

LowerCase == <<"a", "b", "c", "d", "e", "f", "g", "h", "i", "j", "k", "l", "m",
               "n", "o", "p", "q", "r", "s", "t", "u", "v", "w", "x", "y", "z">>

LowerChar(c) ==
    IF \E i \in 1..Len(UpperCase) : UpperCase[i] = c
    THEN LowerCase[CHOOSE i \in 1..Len(UpperCase) : UpperCase[i] = c]
    ELSE c

\* str.lower()
Lower(s) == [i \in 1..Len(s) |-> LowerChar(s[i])]

\* `needle in hay` for two strings
Contains(hay, needle) ==
    \E i \in 1..(Len(hay) - Len(needle) + 1) :
        SubSeq(hay, i, i + Len(needle) - 1) = needle

\* ord(c) for the letters class names are made of
Ord(c) ==
    IF \E i \in 1..Len(UpperCase) : UpperCase[i] = c
    THEN 64 + (CHOOSE i \in 1..Len(UpperCase) : UpperCase[i] = c)
    ELSE 96 + (CHOOSE i \in 1..Len(LowerCase) : LowerCase[i] = c)

\* a < b for two strings: Python compares code point by code point, and a
\* proper prefix is the smaller
StrLess(a, b) ==
    \E k \in 1..(Len(b)) :
        /\ \A j \in 1..(k - 1) : j <= Len(a) /\ a[j] = b[j]
        /\ \/ k = Len(a) + 1
           \/ k <= Len(a) /\ Ord(a[k]) < Ord(b[k])

----------------------------------------------------------------------------
(* Handler classes *)

\* The three shipped classes, and BardHandler standing for a plug-in class
\* declared `class BardHandler(ChatHandler)` that overrides nothing: the scan
\* instantiates every subclass of BaseHandler it finds in a module.
Classes == {"GitHandler", "SystemHandler", "ChatHandler", "BardHandler"}

\* h.__class__.__name__
ClassName(cls) ==
    CASE cls = "GitHandler" -> <<"G", "i", "t", "H", "a", "n", "d", "l", "e", "r">>
      [] cls = "SystemHandler" -> <<"S", "y", "s", "t", "e", "m", "H", "a", "n", "d", "l", "e", "r">>
      [] cls = "ChatHandler" -> <<"C", "h", "a", "t", "H", "a", "n", "d", "l", "e", "r">>
      [] cls = "BardHandler" -> <<"B", "a", "r", "d", "H", "a", "n", "d", "l", "e", "r">>

\* isinstance(handler, ChatHandler)
IsChatInstance(cls) == cls \in {"ChatHandler", "BardHandler"}

\* GitHandler.can_handle
GitCanHandle(q) == Contains(Lower(q), <<"c", "o", "m", "m", "i", "t", " ", "m", "s", "g">>)

\* SystemHandler.can_handle
SystemCanHandle(q) == Lower(q) \in {<<"c", "l", "s">>}

\* ChatHandler.can_handle
ChatCanHandle(q) == TRUE

\* handler.can_handle(query), dispatched on the class of the instance
CanHandle(cls, q) ==
    CASE cls = "GitHandler" -> GitCanHandle(q)
      [] cls = "SystemHandler" -> SystemCanHandle(q)
      [] cls \in {"ChatHandler", "BardHandler"} -> ChatCanHandle(q)

----------------------------------------------------------------------------
(* OrpheusCore._load_handlers *)

\* loaded_handlers after the scan: one new instance per class found, in the
\* order the scan met them
Instantiate(disc) == [i \in 1..Len(disc) |-> [id |-> i, cls |-> disc[i]]]

\* Position at which list.sort puts x among the already sorted s: after every
\* element whose key is not greater (the sort is stable)
InsertSorted(s, x) ==
    LET later == {i \in 1..Len(s) : StrLess(ClassName(x.cls), ClassName(s[i].cls))}
        at == IF later = {} THEN Len(s) + 1
              ELSE CHOOSE i \in later : \A j \in later : i <= j
    IN SubSeq(s, 1, at - 1) \o <<x>> \o SubSeq(s, at, Len(s))

RECURSIVE SortByClassName(_)
\* loaded_handlers.sort(key=lambda h: h.__class__.__name__)
SortByClassName(s) ==
    IF s = <<>> THEN <<>>
    ELSE InsertSorted(SortByClassName(SubSeq(s, 1, Len(s) - 1)), s[Len(s)])

\* The relocation left out
MoveFallback_Skip(s) == s

\* The loop that pops the first ChatHandler instance and appends it
MoveFallback(s) ==
    LET hits == {i \in 1..Len(s) : IsChatInstance(s[i].cls)}
    IN IF hits = {} THEN s
       ELSE LET first == CHOOSE i \in hits : \A j \in hits : i <= j
            IN SubSeq(s, 1, first - 1) \o SubSeq(s, first + 1, Len(s))
                   \o <<s[first]>>

LoadHandlers(disc) == MoveFallback(SortByClassName(Instantiate(disc)))

----------------------------------------------------------------------------
(* JSON bodies and the subscripts gemini_client.query applies to them *)

JNull == [tag |-> "null", val |-> <<>>]

JStr(s) == [tag |-> "str", val |-> s]

JList(items) == [tag |-> "list", val |-> items]

\* fields is a function from key to value
JDict(fields) == [tag |-> "dict", val |-> fields]

\* {"candidates": [{"content": {"parts": [part]}}]}
WithPart(part) ==
    JDict([candidates |-> JList(<<JDict([content |->
        JDict([parts |-> JList(<<part>>)])])>>)])

\* The bodies a 200 response is tried with, by name
Bodies == {"padded", "plain", "blank", "no_candidates", "empty_candidates",
           "no_content", "no_parts", "empty_parts", "no_text",
           "null_candidates", "null_text", "not_json"}

\* response.json() of each body but "not_json", which is no JSON document
Json(body) ==
    CASE body = "padded" -> WithPart(JDict([text |-> JStr(<<" ", "h", "i", "\n">>)]))
      [] body = "plain" -> WithPart(JDict([text |-> JStr(<<"o", "k">>)]))
      [] body = "blank" -> WithPart(JDict([text |-> JStr(<<" ", " ">>)]))
      [] body = "no_candidates" -> JDict([promptFeedback |-> JNull])
      [] body = "empty_candidates" -> JDict([candidates |-> JList(<<>>)])
      [] body = "no_content" ->
             JDict([candidates |-> JList(<<JDict([finishReason |-> JNull])>>)])
      [] body = "no_parts" ->
             JDict([candidates |-> JList(<<JDict([content |->
                 JDict([role |-> JStr(<<"m">>)])])>>)])
      [] body = "empty_parts" ->
             JDict([candidates |-> JList(<<JDict([content |->
                 JDict([parts |-> JList(<<>>)])])>>)])
      [] body = "no_text" -> WithPart(JDict([inlineData |-> JNull]))
      [] body = "null_candidates" -> JDict([candidates |-> JNull])
      [] body = "null_text" -> WithPart(JDict([text |-> JNull]))

Ok(v) == [exc |-> "", val |-> v]

Exc(e) == [exc |-> e, val |-> JNull]

\* r[name] for a string key, r being the outcome of the subscripts before it
SubKey(r, name) ==
    IF r.exc # "" THEN r
    ELSE IF r.val.tag = "dict"
         THEN IF name \in DOMAIN r.val.val THEN Ok(r.val.val[name])
              ELSE Exc("KeyError")
         ELSE Exc("TypeError")

\* r[i] for an integer index
SubIdx(r, i) ==
    IF r.exc # "" THEN r
    ELSE CASE r.val.tag = "dict" -> Exc("KeyError")
           [] r.val.tag = "list" ->
                  IF i < Len(r.val.val) THEN Ok(r.val.val[i + 1])
                  ELSE Exc("IndexError")
           [] r.val.tag = "str" ->
                  IF i < Len(r.val.val) THEN Ok(JStr(<<r.val.val[i + 1]>>))
                  ELSE Exc("IndexError")
           [] OTHER -> Exc("TypeError")

\* json_response['candidates'][0]['content']['parts'][0]['text']
AnswerOf(json) ==
    SubKey(SubIdx(SubKey(SubKey(SubIdx(SubKey(Ok(json),
        "candidates"), 0), "content"), "parts"), 0), "text")

\* answer.strip()
StripAnswer(r) ==
    IF r.exc # "" THEN r
    ELSE IF r.val.tag = "str" THEN Ok(JStr(Strip(r.val.val)))
         ELSE Exc("AttributeError")

----------------------------------------------------------------------------
(* gemini_client.query *)

max_retries == 3

base_delay == 1

\* What one requests.post call can meet: no response at all (connection
\* refused, DNS failure, timeout), or a response with a status and a body.
Statuses == {200, 404, 499, 500, 599}

NoResponse == [kind |-> "no_response", status |-> 0, body |-> ""]

Outcomes ==
    {NoResponse}
    \cup {[kind |-> "response", status |-> st, body |-> ""] :
             st \in Statuses \ {200}}
    \cup {[kind |-> "response", status |-> 200, body |-> b] : b \in Bodies}

\* response.raise_for_status() raises HTTPError carrying the response
RaisesForStatus(o) == o.kind = "response" /\ 400 <= o.status /\ o.status < 600

\* The lower limit of the range taken as exclusive
IsServerError_Above500(o) ==
    o.kind = "response" /\ 500 < o.status /\ o.status < 600

\* Every error status taken as a server error
IsServerError_AnyStatus(o) == o.kind = "response" /\ 400 <= o.status

\* hasattr(e, 'response') and e.response is not None
\*     and 500 <= e.response.status_code < 600
IsServerError(o) == o.kind = "response" /\ 500 <= o.status /\ o.status < 600

\* A linear delay in place of the exponential one
Backoff_Linear(a) == base_delay * (2 * a)

\* base_delay * (2 ** attempt)
Backoff(a) == base_delay * (2 ^ a)

Returned(text, err) == [kind |-> "return", text |-> text, err |-> err, exc |-> ""]

Raised(e) == [kind |-> "raise", text |-> PyNone, err |-> PyNone, exc |-> e]

NoReturn == [kind |-> "none", text |-> PyNone, err |-> PyNone, exc |-> ""]

\* The `continue` that ends a pass of the retry loop
Continue == [kind |-> "continue", text |-> PyNone, err |-> PyNone, exc |-> ""]

KeyMissingError == <<"GEMINI_API_KEY not found in configuration.">>

\* f"Error communicating with the Gemini API: {e}", str(e) kept as one piece
CommunicationError(o) ==
    <<"Error communicating with the Gemini API: ",
      IF o.kind = "no_response" THEN "no response"
      ELSE IF o.body = "not_json" THEN "body is not JSON"
      ELSE IF o.status < 500 THEN "client error" ELSE "server error">>

FormatError == <<"Unexpected response format from the Gemini API.">>

UnavailableError ==
    <<"The Gemini server remains unavailable after several attempts.">>

\* `except KeyError` alone: an empty list raises IndexError
ParseResponse_KeyErrorOnly(o) ==
    LET r == StripAnswer(AnswerOf(Json(o.body)))
    IN CASE r.exc = "" -> Returned(PyStr(r.val.val), PyNone)
         [] r.exc = "KeyError" -> Returned(PyNone, PyStr(FormatError))
         [] OTHER -> Raised(r.exc)

\* The try block past raise_for_status: what query does with a response
\* whose status raised nothing
ParseResponse(o) ==
    LET r == StripAnswer(AnswerOf(Json(o.body)))
    IN CASE r.exc = "" -> Returned(PyStr(r.val.val), PyNone)
         [] r.exc \in {"KeyError", "IndexError"} ->
                Returned(PyNone, PyStr(FormatError))
         [] OTHER -> Raised(r.exc)

\* response.json() of a body that is no JSON document raises
\* requests.exceptions.JSONDecodeError, a RequestException without a response,
\* in requests 2.27 and later, and a plain ValueError before: the version is
\* not pinned
ParseNotJson(o) ==
    {Returned(PyNone, PyStr(CommunicationError(o))), Raised("ValueError")}

\* One pass through the body of `for attempt in range(max_retries)` ends in
\* "continue" (after the sleep) or leaves query with what it returns or raises
AttemptEnds(o) ==
    IF RaisesForStatus(o) \/ o.kind = "no_response"
    THEN IF IsServerError(o) THEN {Continue}
         ELSE {Returned(PyNone, PyStr(CommunicationError(o)))}
    ELSE IF o.body = "not_json" THEN ParseNotJson(o)
         ELSE {ParseResponse(o)}

----------------------------------------------------------------------------
(* HandlerResponse and the handlers' process *)

HandlerResponse(status, message) ==
    [kind |-> "return", status |-> status, display_message |-> message,
     exc |-> ""]

\* process left by an exception instead of a return
Faulted(e) == [kind |-> "raise", status |-> "", display_message |-> <<>>, exc |-> e]

NoResponseYet == [kind |-> "none", status |-> "", display_message |-> <<>>, exc |-> ""]

NotHandledMessage == <<"Sorry, Architect. I don't have a handler for this task.">>

\* What GitHandler._get_staged_diff can meet: a staged diff, nothing staged,
\* git failing, git missing, and output that is not UTF-8 (subprocess.run
\* decodes with encoding='utf-8' and raises UnicodeDecodeError, which
\* _get_staged_diff does not catch)
DiffOutcomes == {"staged", "empty", "CalledProcessError", "FileNotFoundError",
                 "UnicodeDecodeError"}

\* The error text _get_staged_diff returns
DiffError(d) ==
    CASE d = "empty" ->
             <<"There are no changes staged. Use 'git add <file>' first.">>
      [] d = "CalledProcessError" -> <<"Error executing git diff: ", "stderr">>
      [] d = "FileNotFoundError" ->
             <<"Command 'git' not found. This handler must be run inside a Git repository.">>

\* A handler that hides the client's error text behind a message of its own
AfterQuery_OwnMessage(cls, r) ==
    IF r.kind = "raise" THEN Faulted(r.exc)
    ELSE IF Truthy(r.err)
         THEN HandlerResponse("failed", <<"The AI request failed.">>)
    ELSE HandlerResponse("success", <<"\nOrpheus:\n">> \o r.text.val \o <<"\n">>)

\* ChatHandler.process and GitHandler.process from the return of
\* gemini_client.query on: `if error` and the success message
AfterQuery(cls, r) ==
    IF r.kind = "raise" THEN Faulted(r.exc)
    ELSE IF Truthy(r.err) THEN HandlerResponse("failed", r.err.val)
    ELSE IF cls = "GitHandler"
         THEN HandlerResponse("success",
                  <<"\nAI-Generated Commit Suggestion:\n\n",
                    "--------------------------------------\n">>
                      \o r.text.val
                      \o <<"\n", "--------------------------------------\n">>)
         ELSE HandlerResponse("success",
                  <<"\nOrpheus:\n">> \o r.text.val \o <<"\n">>)

----------------------------------------------------------------------------
(* The lines typed at the prompt *)

Queries ==
    { <<"c", "l", "s">>,
      <<"C", "l", "s">>,
      <<"c", "l", "s", " ">>,
      <<"a", " ", "C", "o", "m", "m", "i", "t", " ", "M", "S", "G">>,
      <<"h", "i">>,
      <<"e", "x", "i", "t">>,
      <<"Q", "U", "I", "T">>,
      <<" ">>,
      <<>> }

ExitWords == {<<"e", "x", "i", "t">>, <<"q", "u", "i", "t">>}

----------------------------------------------------------------------------
(* State *)

\* Every list of at most MaxHandlers classes: os.listdir gives the files in
\* any order, a file that fails to import is skipped, and a class imported by
\* two modules is instantiated once for each.
Discoveries ==
    UNION {[1..n -> Classes] : n \in 0..MaxHandlers}

ApiKeys == {PyNone, PyStr(<<>>), PyStr(<<"k">>)}

\* No route_query call has been put on record
NoEarlierCall ==
    [taken |-> FALSE, query |-> <<>>, consulted |-> <<>>, processed |-> <<>>]

Init ==
    /\ api_key \in ApiKeys
    /\ discovered \in Discoveries
    /\ handlers = LoadHandlers(discovered)
    /\ pc = "input"
    /\ query = <<>>
    /\ idx = 1
    /\ consulted = <<>>
    /\ processed = <<>>
    /\ diff = "none"
    /\ attempt = 0
    /\ calls = <<>>
    /\ delays = <<>>
    /\ ret = NoReturn
    /\ response = NoResponseYet
    /\ shown = "banner"
    /\ earlier = NoEarlierCall

registry == <<api_key, discovered, handlers>>

cycle == <<query, idx, consulted, processed, diff, calls, delays, ret, response>>

----------------------------------------------------------------------------
(* OrpheusCore.start_interactive_session *)

\* input() gives an exit word: the loop breaks
ReadExit ==
    /\ pc = "input"
    /\ \E q \in Queries :
        /\ Lower(q) \in ExitWords
        /\ pc' = "ended"
        /\ shown' = "goodbye"
    /\ UNCHANGED <<registry, earlier, cycle, attempt>>

\* input() gives nothing but white space: `continue`
ReadBlank ==
    /\ pc = "input"
    /\ \E q \in Queries :
        /\ Lower(q) \notin ExitWords
        /\ Strip(q) = <<>>
    /\ UNCHANGED vars

\* The exit test without lower(): an exit word in capitals is routed
ReadQuery_ExactExitWord ==
    /\ pc = "input"
    /\ \E q \in Queries :
        /\ q \notin ExitWords
        /\ Strip(q) # <<>>
        /\ query' = q
    /\ idx' = 1
    /\ consulted' = <<>>
    /\ processed' = <<>>
    /\ diff' = "none"
    /\ calls' = <<>>
    /\ delays' = <<>>
    /\ ret' = NoReturn
    /\ response' = NoResponseYet
    /\ pc' = "route"
    /\ shown' = "processing"
    /\ UNCHANGED <<registry, earlier, attempt>>

\* route_query building its handlers anew for each query
ReadQuery_Reload ==
    /\ pc = "input"
    /\ \E q \in Queries :
        /\ Lower(q) \notin ExitWords
        /\ Strip(q) # <<>>
        /\ query' = q
    /\ handlers' = [i \in 1..Len(handlers) |->
                       [id |-> handlers[i].id + Len(handlers),
                        cls |-> handlers[i].cls]]
    /\ idx' = 1
    /\ consulted' = <<>>
    /\ processed' = <<>>
    /\ diff' = "none"
    /\ calls' = <<>>
    /\ delays' = <<>>
    /\ ret' = NoReturn
    /\ response' = NoResponseYet
    /\ pc' = "route"
    /\ shown' = "processing"
    /\ UNCHANGED <<api_key, discovered, attempt, earlier>>

\* input() gives a line to route: route_query is entered
ReadQuery ==
    /\ pc = "input"
    /\ \E q \in Queries :
        /\ Lower(q) \notin ExitWords
        /\ Strip(q) # <<>>
        /\ query' = q
    /\ idx' = 1
    /\ consulted' = <<>>
    /\ processed' = <<>>
    /\ diff' = "none"
    /\ calls' = <<>>
    /\ delays' = <<>>
    /\ ret' = NoReturn
    /\ response' = NoResponseYet
    /\ pc' = "route"
    /\ shown' = "processing"
    /\ UNCHANGED <<registry, earlier, attempt>>

\* A later pass of the loop whose route_query starts where the for loop of
\* the call before it stopped
ReadQueryAgain_KeepIdx ==
    /\ pc = "input"
    /\ ~earlier.taken
    /\ response # NoResponseYet
    /\ earlier' = [taken |-> TRUE, query |-> query,
                   consulted |-> consulted, processed |-> processed]
    /\ \E q \in Queries :
        /\ Lower(q) \notin ExitWords
        /\ Strip(q) # <<>>
        /\ query' = q
    /\ consulted' = <<>>
    /\ processed' = <<>>
    /\ diff' = "none"
    /\ calls' = <<>>
    /\ delays' = <<>>
    /\ ret' = NoReturn
    /\ response' = NoResponseYet
    /\ pc' = "route"
    /\ shown' = "processing"
    /\ UNCHANGED <<registry, attempt, idx>>

\* A later pass of the loop: route_query has been called and has come back
\* at least once in this session, and input() gives another line to route.
\* The call that came back last is put on record in `earlier`.
ReadQueryAgain ==
    /\ pc = "input"
    /\ ~earlier.taken
    /\ response # NoResponseYet
    /\ earlier' = [taken |-> TRUE, query |-> query,
                   consulted |-> consulted, processed |-> processed]
    /\ \E q \in Queries :
        /\ Lower(q) \notin ExitWords
        /\ Strip(q) # <<>>
        /\ query' = q
    /\ idx' = 1
    /\ consulted' = <<>>
    /\ processed' = <<>>
    /\ diff' = "none"
    /\ calls' = <<>>
    /\ delays' = <<>>
    /\ ret' = NoReturn
    /\ response' = NoResponseYet
    /\ pc' = "route"
    /\ shown' = "processing"
    /\ UNCHANGED <<registry, attempt>>

\* input() raises something that is not KeyboardInterrupt (EOFError on a
\* closed stdin): `except Exception` prints it and the loop goes on
InputFault ==
    /\ pc = "input"
    /\ shown' = "core_error"
    /\ UNCHANGED <<registry, earlier, cycle, attempt, pc>>

\* display_response without its branch for failed
Printed_NoFailedBranch(r) ==
    IF r.kind = "raise" THEN "core_error"
    ELSE IF r.status \in {"success", "not_handled"} THEN r.status
    ELSE "unknown"

\* What display_response prints for a response, and what `except Exception`
\* prints for a fault that left route_query
Printed(r) ==
    IF r.kind = "raise" THEN "core_error"
    ELSE IF r.status \in {"success", "failed", "not_handled"} THEN r.status
    ELSE "unknown"

\* The loop without `except Exception`: a fault ends the session
Display_NoCatch ==
    /\ pc = "display"
    /\ shown' = IF response.kind = "raise" THEN "crashed" ELSE Printed(response)
    /\ pc' = IF response.kind = "raise" THEN "ended" ELSE "input"
    /\ UNCHANGED <<registry, earlier, cycle, attempt>>

\* display_response(response), or the except clause, then the next prompt
Display ==
    /\ pc = "display"
    /\ shown' = Printed(response)
    /\ pc' = "input"
    /\ UNCHANGED <<registry, earlier, cycle, attempt>>

\* display_response raises: print fails on a console whose encoding lacks
\* the symbols of the message (UnicodeEncodeError); `except Exception` prints
\* the fault and the loop goes on
DisplayFault ==
    /\ pc = "display"
    /\ response.kind = "return"
    /\ shown' = "core_error"
    /\ pc' = "input"
    /\ UNCHANGED <<registry, earlier, cycle, attempt>>

\* KeyboardInterrupt delivered only while input() waits
Interrupt_InputOnly ==
    /\ pc = "input"
    /\ pc' = "ended"
    /\ shown' = "interrupted"
    /\ UNCHANGED <<registry, earlier, cycle, attempt>>

\* Ctrl+C: KeyboardInterrupt is raised wherever the thread is, passes every
\* `except Exception` and `except RequestException`, and reaches
\* `except KeyboardInterrupt`, which breaks the loop
Interrupt ==
    /\ pc # "ended"
    /\ pc' = "ended"
    /\ shown' = "interrupted"
    /\ UNCHANGED <<registry, earlier, cycle, attempt>>

----------------------------------------------------------------------------
(* Variants of route_query *)

\* `if handler.can_handle:` without the call: the bound method is always true
RouteCanHandle_NoCheck ==
    /\ pc = "route"
    /\ idx <= Len(handlers)
    /\ LET h == handlers[idx]
           answer == CanHandle(h.cls, query)
       IN /\ consulted' = Append(consulted,
                              [pos |-> idx, id |-> h.id, answer |-> answer])
          /\ processed' = Append(processed, [pos |-> idx, id |-> h.id])
          /\ pc' = "process"
          /\ idx' = idx
    /\ UNCHANGED <<registry, earlier, query, diff, attempt, calls, delays, ret,
                   response, shown>>

\* A loop that loses its place when a handler declines (the list shrinking
\* under the iteration): the handler after a declining one is passed over
RouteCanHandle_SkipNext ==
    /\ pc = "route"
    /\ idx <= Len(handlers)
    /\ LET h == handlers[idx]
           answer == CanHandle(h.cls, query)
       IN /\ consulted' = Append(consulted,
                              [pos |-> idx, id |-> h.id, answer |-> answer])
          /\ IF answer
             THEN /\ processed' = Append(processed, [pos |-> idx, id |-> h.id])
                  /\ pc' = "process"
                  /\ idx' = idx
             ELSE /\ idx' = idx + 2
                  /\ UNCHANGED <<processed, pc>>
    /\ UNCHANGED <<registry, earlier, query, diff, attempt, calls, delays,
                   ret, response, shown>>

\* The final return with the status of a failure
NotHandled_Failed == HandlerResponse("failed", NotHandledMessage)

----------------------------------------------------------------------------
(* OrpheusCore.route_query *)

\* One pass of `for handler in self.handlers`: can_handle is called, and on
\* True process is called on the same handler
RouteCanHandle ==
    /\ pc = "route"
    /\ idx <= Len(handlers)
    /\ LET h == handlers[idx]
           answer == CanHandle(h.cls, query)
       IN /\ consulted' = Append(consulted,
                              [pos |-> idx, id |-> h.id, answer |-> answer])
          /\ IF answer
             THEN /\ processed' = Append(processed, [pos |-> idx, id |-> h.id])
                  /\ pc' = "process"
                  /\ idx' = idx
             ELSE /\ idx' = idx + 1
                  /\ UNCHANGED <<processed, pc>>
    /\ UNCHANGED <<registry, earlier, query, diff, attempt, calls, delays, ret,
                   response, shown>>

\* The response of the final return
NotHandled == HandlerResponse("not_handled", NotHandledMessage)

\* The loop is over and no handler took the query
RouteNotHandled ==
    /\ pc = "route"
    /\ idx > Len(handlers)
    /\ response' = NotHandled
    /\ pc' = "display"
    /\ UNCHANGED <<registry, earlier, query, idx, consulted, processed, diff, attempt,
                   calls, delays, ret, shown>>

----------------------------------------------------------------------------
(* The handlers *)

\* SystemHandler.process
ProcessSystem ==
    /\ pc = "process"
    /\ handlers[idx].cls = "SystemHandler"
    /\ response' = HandlerResponse("success",
                       <<"Terminal screen has been cleared.">>)
    /\ pc' = "display"
    /\ UNCHANGED <<registry, earlier, query, idx, consulted, processed, diff, attempt,
                   calls, delays, ret, shown>>

\* GitHandler.process up to its call of gemini_client.query
ProcessGit ==
    /\ pc = "process"
    /\ handlers[idx].cls = "GitHandler"
    /\ \E d \in DiffOutcomes :
        /\ diff' = d
        /\ CASE d = "staged" -> pc' = "query" /\ UNCHANGED response
             [] d = "UnicodeDecodeError" ->
                    pc' = "display" /\ response' = Faulted(d)
             [] OTHER ->
                    /\ pc' = "display"
                    /\ response' = HandlerResponse("failed", DiffError(d))
    /\ UNCHANGED <<registry, earlier, query, idx, consulted, processed, attempt, calls,
                   delays, ret, shown>>

\* ChatHandler.process up to its call of gemini_client.query
ProcessChat ==
    /\ pc = "process"
    /\ IsChatInstance(handlers[idx].cls)
    /\ pc' = "query"
    /\ UNCHANGED <<registry, earlier, cycle, attempt, shown>>

\* gemini_client.query has returned or raised: the rest of process
FinishProcess ==
    /\ pc = "queried"
    /\ response' = AfterQuery(handlers[idx].cls, ret)
    /\ pc' = "display"
    /\ UNCHANGED <<registry, earlier, query, idx, consulted, processed, diff, attempt,
                   calls, delays, ret, shown>>

----------------------------------------------------------------------------
(* gemini_client.query *)

\* An attempt counter kept between calls (a module-level counter in place
\* of the loop variable)
QueryStart_KeepAttempt ==
    /\ pc = "query"
    /\ IF ~Truthy(api_key)
       THEN /\ ret' = Returned(PyNone, PyStr(KeyMissingError))
            /\ pc' = "queried"
       ELSE /\ pc' = "attempt"
            /\ UNCHANGED ret
    /\ UNCHANGED <<registry, earlier, query, idx, consulted, processed, diff,
                   attempt, calls, delays, response, shown>>

\* From the entry of query to the head of the retry loop
QueryStart ==
    /\ pc = "query"
    /\ IF ~Truthy(api_key)
       THEN /\ ret' = Returned(PyNone, PyStr(KeyMissingError))
            /\ pc' = "queried"
            /\ UNCHANGED attempt
       ELSE /\ attempt' = 0
            /\ pc' = "attempt"
            /\ UNCHANGED ret
    /\ UNCHANGED <<registry, earlier, query, idx, consulted, processed, diff, calls,
                   delays, response, shown>>

\* One pass of the retry loop: the request, and what follows from its
\* outcome. attempt counts the passes made, so it is the loop variable of
\* the pass about to start.
Attempt ==
    /\ pc = "attempt"
    /\ attempt < max_retries
    /\ \E o \in Outcomes :
        /\ calls' = Append(calls, o)
        /\ \E e \in AttemptEnds(o) :
            IF e = Continue
            THEN /\ delays' = Append(delays, Backoff(attempt))
                 /\ attempt' = attempt + 1
                 /\ UNCHANGED <<pc, ret>>
            ELSE /\ ret' = e
                 /\ pc' = "queried"
                 /\ UNCHANGED <<delays, attempt>>
    /\ UNCHANGED <<registry, earlier, query, idx, consulted, processed, diff,
                   response, shown>>

\* range(max_retries) is used up: the return after the loop
QueryExhausted ==
    /\ pc = "attempt"
    /\ attempt >= max_retries
    /\ ret' = Returned(PyNone, PyStr(UnavailableError))
    /\ pc' = "queried"
    /\ UNCHANGED <<registry, earlier, query, idx, consulted, processed, diff, attempt,
                   calls, delays, response, shown>>

----------------------------------------------------------------------------

Next ==
    \/ ReadExit
    \/ ReadBlank
    \/ ReadQuery
    \/ InputFault
    \/ Display
    \/ DisplayFault
    \/ Interrupt
    \/ RouteCanHandle
    \/ RouteNotHandled
    \/ ProcessSystem
    \/ ProcessGit
    \/ ProcessChat
    \/ FinishProcess
    \/ QueryStart
    \/ Attempt
    \/ QueryExhausted

Spec == Init /\ [][Next]_vars

\* The session with one of its route_query calls put on record, so that a
\* later call can be compared with it. route_query reads nothing of what the
\* client returns, so the session is taken without a credential: query
\* returns at its first test and no request is sent.
InitReplay ==
    /\ Init
    /\ ~Truthy(api_key)

NextReplay ==
    \/ ReadExit
    \/ ReadBlank
    \/ ReadQuery
    \/ ReadQueryAgain
    \/ InputFault
    \/ Display
    \/ DisplayFault
    \/ Interrupt
    \/ RouteCanHandle
    \/ RouteNotHandled
    \/ ProcessSystem
    \/ ProcessGit
    \/ ProcessChat
    \/ FinishProcess
    \/ QueryStart

SpecReplay == InitReplay /\ [][NextReplay]_vars

----------------------------------------------------------------------------
(* Properties of the registry and of route_query *)

\* No handler of the registry takes the current query
NoMatch == \A i \in 1..Len(handlers) : ~CanHandle(handlers[i].cls, query)

\* C1: one call of route_query invokes process on at most one handler; the
\* handler it invokes is the first of the list whose can_handle is true for
\* the query, and its can_handle was called and returned true in this call.
C1_ProcessOnlyFirstMatch ==
    /\ Len(processed) <= 1
    /\ \A k \in 1..Len(processed) :
        LET p == processed[k].pos
        IN /\ handlers[p].id = processed[k].id
           /\ \E c \in 1..Len(consulted) :
                  /\ consulted[c].pos = p
                  /\ consulted[c].id = processed[k].id
                  /\ consulted[c].answer
           /\ \A c \in 1..Len(consulted) :
                  consulted[c].answer => consulted[c].pos >= p
           /\ CanHandle(handlers[p].cls, query)
           /\ \A j \in 1..(p - 1) : ~CanHandle(handlers[j].cls, query)

\* route_query has returned after two handlers declined and the third took
\* the query
C1_Witness ==
    /\ pc = "display"
    /\ Len(processed) = 1
    /\ processed[1].pos = 3
    /\ Len(consulted) = 3

\* C2: when the scan found an instance that passes the isinstance test of
\* the fallback, the list built from it ends with such an instance, every
\* other element is in ascending order of class name, and the list holds
\* each instance the scan created exactly once.
C2_FallbackLastOthersSorted ==
    (\E i \in 1..Len(discovered) : IsChatInstance(discovered[i])) =>
        LET n == Len(handlers)
        IN /\ n = Len(discovered)
           /\ IsChatInstance(handlers[n].cls)
           /\ \A i, j \in 1..(n - 1) :
                  i < j => ~StrLess(ClassName(handlers[j].cls),
                                    ClassName(handlers[i].cls))
           /\ \A i, j \in 1..n : handlers[i].id = handlers[j].id => i = j
           /\ \A i \in 1..n :
                  /\ handlers[i].id \in 1..n
                  /\ handlers[i].cls = discovered[handlers[i].id]

\* The scan met ChatHandler first, then SystemHandler, then GitHandler
C2_Witness ==
    /\ discovered = <<"ChatHandler", "SystemHandler", "GitHandler">>
    /\ handlers = <<[id |-> 3, cls |-> "GitHandler"],
                    [id |-> 2, cls |-> "SystemHandler"],
                    [id |-> 1, cls |-> "ChatHandler"]>>

\* C3: a fault raised inside the selected handler's process leaves
\* route_query as a response with status failed, never as a fault.
C3_ProcessFaultBecomesFailed ==
    pc = "display" =>
        /\ response.kind = "return"
        /\ (diff = "UnicodeDecodeError" \/ ret.kind = "raise") =>
               response.status = "failed"

\* C4: when no handler takes the query, route_query invokes no process and
\* returns not_handled with the fixed message.
C4_NoMatchNotHandled ==
    NoMatch =>
        /\ processed = <<>>
        /\ pc = "display" =>
               /\ response.kind = "return"
               /\ response.status = "not_handled"
               /\ response.display_message = NotHandledMessage

\* route_query has returned for a query that both registered handlers
\* declined
C4_Witness ==
    /\ pc = "display"
    /\ NoMatch
    /\ Len(handlers) = 2
    /\ Len(consulted) = 2

----------------------------------------------------------------------------
(* Properties of gemini_client.query *)

\* The request was answered with a status in 500..599
ServerErrorStatus(o) == o.kind = "response" /\ o.status \in 500..599

\* The request failed otherwise: a 4xx status, or no response at all
OtherFailure(o) ==
    \/ o.kind = "no_response"
    \/ o.kind = "response" /\ o.status \in 400..499

\* The request was answered 200 with a body of the expected shape
WellFormed(o) ==
    /\ o.kind = "response"
    /\ o.status = 200
    /\ o.body \in {"padded", "plain", "blank"}

\* The text of a well-formed body without its surrounding white space
TextOf(body) ==
    CASE body = "padded" -> <<"h", "i">>
      [] body = "plain" -> <<"o", "k">>
      [] body = "blank" -> <<>>

\* query gave back no text and the communication error
ReturnedCommunicationError ==
    /\ ret.kind = "return"
    /\ ret.text = PyNone
    /\ ret.err.tag = "str"
    /\ Len(ret.err.val) = 2
    /\ ret.err.val[1] = "Error communicating with the Gemini API: "

\* C5: the k-th delay of a call is base_delay * 2^(k-1), every delay is
\* followed by another attempt, and there is no delay after the third
\* attempt.
C5_DelayOnlyBeforeRetry ==
    /\ \A k \in 1..Len(delays) : delays[k] = base_delay * (2 ^ (k - 1))
    /\ Len(delays) < 3
    /\ pc = "queried" => (delays = <<>> \/ Len(delays) < Len(calls))

\* C6: when every request of a call was answered with a 5xx status, query
\* returns after exactly 3 requests, with no text and the unavailable error;
\* no call makes more than 3 requests.
C6_AllServerErrorsThreeAttempts ==
    /\ Len(calls) <= 3
    /\ (/\ pc = "queried"
        /\ calls # <<>>
        /\ \A k \in 1..Len(calls) : ServerErrorStatus(calls[k])) =>
           /\ Len(calls) = 3
           /\ ret = Returned(PyNone, PyStr(UnavailableError))

\* query has returned after three requests answered 500, 599 and 500
C6_Witness ==
    /\ pc = "queried"
    /\ Len(calls) = 3
    /\ calls[1].status = 500
    /\ calls[2].status = 599
    /\ calls[3].status = 500

\* C7: after two 5xx answers and a well-formed 200, query returns the
\* (stripped) text of the third answer and no error, having slept 1 and then
\* 2; a well-formed 200 at any attempt is the last request of the call and
\* no delay follows it.
C7_SuccessOnThirdAttempt ==
    /\ (/\ pc = "queried"
        /\ Len(calls) = 3
        /\ ServerErrorStatus(calls[1])
        /\ ServerErrorStatus(calls[2])
        /\ WellFormed(calls[3])) =>
           /\ ret = Returned(PyStr(TextOf(calls[3].body)), PyNone)
           /\ delays = <<1, 2>>
    /\ \A k \in 1..Len(calls) :
           WellFormed(calls[k]) =>
               /\ k = Len(calls)
               /\ Len(delays) = k - 1
               /\ pc # "attempt"
               /\ pc = "queried" =>
                      ret = Returned(PyStr(TextOf(calls[k].body)), PyNone)

\* query has returned "hi" from the third answer, whose text was " hi\n"
C7_Witness ==
    /\ pc = "queried"
    /\ Len(calls) = 3
    /\ calls[3].body = "padded"
    /\ ret.text = PyStr(<<"h", "i">>)
    /\ delays = <<1, 2>>

\* A failure that is no 5xx answer ends the call at once: it is the last
\* request, no delay follows it, and query returns no text and the
\* communication error
OtherFailureReturnsAtOnce ==
    \A k \in 1..Len(calls) :
        OtherFailure(calls[k]) =>
            /\ k = Len(calls)
            /\ Len(delays) = k - 1
            /\ pc # "attempt"
            /\ pc = "queried" => ReturnedCommunicationError

\* C8 as stated: a request is followed by another one exactly when it was
\* answered with a 5xx status, and any other failure ends the call at once.
C8_RetryIffServerError ==
    /\ pc = "queried" =>
           \A k \in 1..Len(calls) :
               (k < Len(calls)) <=> ServerErrorStatus(calls[k])
    /\ OtherFailureReturnsAtOnce

\* C8: a request is followed by another one exactly when it was answered
\* with a 5xx status and was not the third request of the call; any other
\* failure ends the call at once.
C8_RetryIffServerErrorBeforeThird ==
    /\ pc = "queried" =>
           \A k \in 1..Len(calls) :
               (k < Len(calls)) <=> (ServerErrorStatus(calls[k]) /\ k < 3)
    /\ \A k \in 1..Len(calls) : k < Len(calls) => ServerErrorStatus(calls[k])
    /\ OtherFailureReturnsAtOnce

\* query has returned after a 599 answer, a retry, and a 404 answer
C8_Witness ==
    /\ pc = "queried"
    /\ Len(calls) = 2
    /\ calls[1].status = 599
    /\ calls[2].status = 404
    /\ delays = <<1>>

\* C9: without a key (None or the empty string) query makes no request and
\* no delay, and returns no text and the configuration error.
C9_NoKeyNoRequest ==
    (api_key = PyNone \/ api_key = PyStr(<<>>)) =>
        /\ calls = <<>>
        /\ delays = <<>>
        /\ pc # "attempt"
        /\ pc = "queried" => ret = Returned(PyNone, PyStr(KeyMissingError))

\* query has returned with the key set to the empty string
C9_Witness ==
    /\ pc = "queried"
    /\ api_key = PyStr(<<>>)
    /\ ret.err = PyStr(KeyMissingError)

\* C10: query always returns a pair, and exactly one of its text and its
\* error is present.
C10_ExactlyOneOfTextAndError ==
    pc = "queried" =>
        /\ ret.kind = "return"
        /\ (ret.text = PyNone) # (ret.err = PyNone)

\* The request was answered 200 with a JSON body that lacks one of the
\* fields candidates, candidates[0], content, parts, parts[0], text
LacksField(o) ==
    /\ o.kind = "response"
    /\ o.status = 200
    /\ o.body \in {"no_candidates", "empty_candidates", "no_content",
                   "no_parts", "empty_parts", "no_text"}

\* C11: a 200 answer whose body lacks an expected field ends the call at
\* once: it is the last request, no delay follows it, and query returns no
\* text and the format error instead of raising.
C11_MissingFieldFormatError ==
    \A k \in 1..Len(calls) :
        LacksField(calls[k]) =>
            /\ k = Len(calls)
            /\ Len(delays) = k - 1
            /\ pc # "attempt"
            /\ pc = "queried" => ret = Returned(PyNone, PyStr(FormatError))

\* query has returned the format error for a second answer whose candidates
\* list is empty
C11_Witness ==
    /\ pc = "queried"
    /\ Len(calls) = 2
    /\ calls[2].body = "empty_candidates"
    /\ ret.err = PyStr(FormatError)

----------------------------------------------------------------------------
(* Properties of the session loop *)

\* C12: a fault that leaves route_query or display_response is printed by
\* the loop, which then prompts again; from the display step the session
\* goes to the prompt, and ends only by a user interrupt.
C12_FaultLoggedLoopGoesOn ==
    /\ [](pc = "display" => ENABLED Display)
    /\ [][(pc = "display" /\ pc' # "display") =>
             \/ /\ pc' = "input"
                /\ response.kind = "raise" => shown' = "core_error"
             \/ pc' = "ended" /\ shown' = "interrupted"]_vars

\* The loop is back at the prompt after printing a fault that left
\* route_query
C12_Witness ==
    /\ pc = "input"
    /\ shown = "core_error"
    /\ response.kind = "raise"

\* An instance that passes the fallback test is registered
FallbackRegistered ==
    \E i \in 1..Len(handlers) : IsChatInstance(handlers[i].cls)

\* No registered handler other than the fallback ones takes the query
NoSpecialisedMatch ==
    \A i \in 1..Len(handlers) :
        ~IsChatInstance(handlers[i].cls) => ~CanHandle(handlers[i].cls, query)

\* C13: with the fallback registered, route_query never returns not_handled,
\* and process is invoked on a fallback handler exactly when no other handler
\* takes the query.
C13_FallbackOnlyWhenNoOtherMatch ==
    (FallbackRegistered /\ pc = "display") =>
        /\ response.kind = "return" => response.status # "not_handled"
        /\ (\E k \in 1..Len(processed) :
                IsChatInstance(handlers[processed[k].pos].cls))
               <=> NoSpecialisedMatch

\* C14: no step of the session changes the handler list: it holds the
\* instances made at construction, in the order given at construction.
C14_HandlersNeverChange ==
    /\ [][handlers' = handlers]_vars
    /\ [](handlers = LoadHandlers(discovered))

\* A query has been routed to the third of three handlers and its response
\* displayed
C14_Witness ==
    /\ pc = "input"
    /\ shown = "success"
    /\ Len(handlers) = 3
    /\ Len(processed) = 1
    /\ processed[1].pos = 3

\* A call of process is in flight
InFlight == pc \in {"process", "query", "attempt", "queried"}

\* C15 as stated: an interrupt at the prompt ends the session and nothing is
\* routed after it; a process call in flight is not cancelled by an
\* interrupt: it goes on to its own end.
C15_InterruptSparesProcess ==
    /\ [][pc = "ended" => UNCHANGED vars]_vars
    /\ [][(pc = "input" /\ shown' = "interrupted") => pc' = "ended"]_vars
    /\ [][InFlight => (pc' # "ended" /\ shown' # "interrupted")]_vars

\* C15: an interrupt can arrive at the prompt and while a process call is in
\* flight; in both cases it ends the session, the call in flight is
\* abandoned as it stands (no further attempt, no response), and nothing is
\* routed or displayed after it.
C15_InterruptEndsSession ==
    /\ [][pc = "ended" => UNCHANGED vars]_vars
    /\ [][(shown' = "interrupted" /\ pc # "ended") =>
             (pc' = "ended" /\ UNCHANGED <<registry, earlier, cycle, attempt>>)]_vars
    /\ []((pc = "input" \/ InFlight) => ENABLED Interrupt)

\* The interrupt came after the first request of a call and before the call
\* returned
C15_Witness ==
    /\ pc = "ended"
    /\ shown = "interrupted"
    /\ Len(calls) = 1
    /\ ret = NoReturn
    /\ response = NoResponseYet

\* C16: a call of route_query with the query of an earlier call of the same
\* session, on the same handler list, consults the same handlers in the same
\* order with the same answers and selects the same handler.
C16_SameQuerySameOrder ==
    (earlier.taken /\ earlier.query = query) =>
        /\ \A c \in 1..Len(consulted) :
               /\ c <= Len(earlier.consulted)
               /\ consulted[c] = earlier.consulted[c]
        /\ pc \in {"process", "query", "attempt", "queried", "display"} =>
               /\ consulted = earlier.consulted
               /\ processed = earlier.processed

\* The same query has been routed twice and both calls selected the third
\* handler after two declined
C16_Witness ==
    /\ earlier.taken
    /\ earlier.query = query
    /\ pc = "display"
    /\ Len(consulted) = 3
    /\ Len(earlier.consulted) = 3
    /\ Len(processed) = 1
    /\ processed[1].pos = 3

\* C17: within one call of route_query the can_handle calls go down the
\* list from its first element, one per handler, each with the answer of
\* that handler for the query; a true answer is the last call of the call;
\* when route_query goes on to process or returns, the calls made are those
\* on the handlers up to and including the first that takes the query, or on
\* all handlers when none takes it.
C17_CanHandleInOrderUpToFirstMatch ==
    /\ Len(consulted) <= Len(handlers)
    /\ \A c \in 1..Len(consulted) :
           /\ consulted[c].pos = c
           /\ consulted[c].id = handlers[c].id
           /\ consulted[c].answer = CanHandle(handlers[c].cls, query)
           /\ consulted[c].answer => c = Len(consulted)
    /\ \A c, d \in 1..Len(consulted) :
           consulted[c].id = consulted[d].id => c = d
    /\ InFlight =>
           /\ consulted # <<>>
           /\ consulted[Len(consulted)].answer
    /\ pc = "display" =>
           \/ /\ consulted # <<>>
              /\ consulted[Len(consulted)].answer
           \/ /\ Len(consulted) = Len(handlers)
              /\ NoMatch

\* route_query has returned: the first of three handlers declined, the
\* second took the query, the third was not asked
C17_Witness ==
    /\ pc = "display"
    /\ Len(handlers) = 3
    /\ Len(consulted) = 2
    /\ ~consulted[1].answer
    /\ consulted[2].answer

----------------------------------------------------------------------------
(* Properties of gemini_client.query, continued *)

\* C18: one call of query makes at most max_retries = 3 requests and then
\* returns or raises: each pass of the loop that does not end the call
\* counts one request and one attempt more, and after the third the loop
\* is left. Every call enters the loop with the count at zero and with no
\* request, delay or result of an earlier call.
C18_AtMostThreeAttemptsEachCall ==
    /\ [](Len(calls) <= max_retries)
    /\ [](pc = "query" => (calls = <<>> /\ delays = <<>> /\ ret = NoReturn))
    /\ [](pc = "attempt" =>
             /\ attempt = Len(calls)
             /\ attempt <= max_retries
             /\ ret = NoReturn)
    /\ [][(pc = "query" /\ pc' = "attempt") => attempt' = 0]_vars
    /\ [][(pc = "attempt" /\ pc' = "attempt") =>
             /\ attempt' = attempt + 1
             /\ Len(calls') = Len(calls) + 1]_vars
    /\ [][(pc = "attempt" /\ attempt >= max_retries) => pc' # "attempt"]_vars
    /\ [][(pc = "attempt" /\ pc' = "queried") =>
             /\ Len(calls') <= max_retries
             /\ ret'.kind \in {"return", "raise"}]_vars

\* A call has used its three attempts and returned the last error
C18_Witness ==
    /\ pc = "queried"
    /\ attempt = max_retries
    /\ Len(calls) = max_retries
    /\ delays = <<1, 2, 4>>
    /\ ret = Returned(PyNone, PyStr(UnavailableError))

----------------------------------------------------------------------------
(* Properties of the handlers that call the client *)

\* The four texts the client returns in its error slot
ClientErrors ==
    {KeyMissingError, FormatError, UnavailableError}
    \cup {CommunicationError(o) : o \in Outcomes}

\* C19: when the client returned an error to ChatHandler or GitHandler,
\* route_query returns a response with status failed whose message is that
\* error text; when it returned a text and no error, the status is success;
\* without a credential the response is the failed response carrying the
\* configuration error.
C19_ClientErrorBecomesFailed ==
    (pc = "display" /\ ret.kind = "return") =>
        /\ ret.err # PyNone =>
               /\ ret.err.val \in ClientErrors
               /\ response = HandlerResponse("failed", ret.err.val)
        /\ ret.err = PyNone =>
               /\ response.kind = "return"
               /\ response.status = "success"
        /\ ~Truthy(api_key) =>
               response = HandlerResponse("failed", KeyMissingError)

\* GitHandler found a staged diff, the client had no credential, and
\* route_query has returned
C19_Witness ==
    /\ pc = "display"
    /\ api_key = PyNone
    /\ diff = "staged"
    /\ idx \in 1..Len(handlers)
    /\ handlers[idx].cls = "GitHandler"
    /\ response = HandlerResponse("failed", KeyMissingError)

----------------------------------------------------------------------------
(* Properties of the session loop, continued *)

\* C20: the loop ends only at the prompt on an exit word, or on an
\* interrupt, and an exit word at the prompt can always end it; a line handed
\* to route_query is never an exit word in any case of letters, nor blank;
\* from the prompt the loop goes to route_query, ends, or prompts again, a
\* fault of input() prompts again, and whatever route_query or
\* display_response did, the next step of the loop is the prompt unless an
\* interrupt ends it.
C20_EndsOnlyOnExitWordOrInterrupt ==
    /\ [][(pc # "ended" /\ pc' = "ended") =>
             \/ pc = "input" /\ shown' = "goodbye"
             \/ shown' = "interrupted"]_vars
    /\ [](pc = "input" => ENABLED ReadExit)
    /\ [](/\ Lower(query) \notin ExitWords
          /\ pc \notin {"input", "ended"} => Strip(query) # <<>>)
    /\ [][pc = "input" => pc' \in {"input", "route", "ended"}]_vars
    /\ [][(pc = "input" /\ pc' = "route") =>
             (Lower(query') \notin ExitWords /\ Strip(query') # <<>>)]_vars
    /\ [][(pc = "input" /\ shown' = "core_error") => pc' = "input"]_vars
    /\ [][pc = "display" => pc' \in {"display", "input", "ended"}]_vars
    /\ [][(pc = "display" /\ shown' # "interrupted") => pc' # "ended"]_vars

\* A fault left route_query, the loop went on, and an exit word then ended
\* the session
C20_Witness ==
    /\ pc = "ended"
    /\ shown = "goodbye"
    /\ response.kind = "raise"

----------------------------------------------------------------------------
(* Properties of the registry, continued *)

\* C21: in the built list no handler that passes the fallback test stands
\* before a handler that fails it.
C21_NoFallbackBeforeSpecialised ==
    \A i, j \in 1..Len(handlers) :
        (IsChatInstance(handlers[i].cls) /\ ~IsChatInstance(handlers[j].cls))
            => j < i

\* The scan found exactly the three handler classes of the repository, one
\* instance of each
Shipped ==
    /\ Len(discovered) = 3
    /\ {discovered[i] : i \in 1..3} = {"GitHandler", "SystemHandler", "ChatHandler"}

\* C22: with the three handlers of the repository, every response
\* route_query returns has status success, failed or not_handled, and the
\* session never prints the unknown-response warning.
C22_ShippedStatusesAreKnown ==
    Shipped =>
        /\ response.kind = "return" =>
               response.status \in {"success", "failed", "not_handled"}
        /\ shown # "unknown"

\* With the three handlers of the repository a failed response (no staged
\* changes) has been displayed
C22_Witness ==
    /\ Shipped
    /\ pc = "input"
    /\ shown = "failed"
    /\ diff = "empty"

====
